---- MODULE Spec2Model ----
(***************************************************************************)
(* License-key bot (src/key.py): the JSON store (Storage), the key         *)
(* lifecycle (KeyManager), the chat commands and panel buttons that run on *)
(* the bot's asyncio event loop, and the two Flask handlers (/check,       *)
(* /activate) that run on the web thread.                                  *)
(*                                                                         *)
(* Time is counted in whole ticks. time.time() (the key id's timestamp),   *)
(* datetime.now() and timedelta(days=1) are all measured in the same tick, *)
(* so two calls in one tick share a timestamp and a key of d days expires  *)
(* once the clock is more than d ticks past its creation.                  *)
(*                                                                         *)
(* Strings that the code takes apart (the duration argument) are sequences *)
(* of one-character strings; all other strings are TLA+ strings.           *)
(***************************************************************************)
EXTENDS Integers, Sequences, FiniteSets, TLC

\* ------------------------------------------------------------------ bounds
\* The clock runs over 0..MaxTime.
MaxTime == 2
\* No command, button press or request is taken up after this many.
MaxOps == 3

\* ------------------------------------------------------------------ inputs
Users == {1, 2}
\* key_type choices of the create_key command (lines 858-861)
CommandTypes == {"AV", "ASTD"}
\* key_type choices of manage_key (lines 799-803)
ManageTypes == {"AV", "ASTD", "ALS"}
\* the two panels (ASTD*Button, ALS*Button)
PanelTypes == {"ASTD", "ALS"}
\* hwid arguments of the create_key / register_user commands (never empty:
\* a required slash-command string option)
CommandHwids == {"H1"}
\* hwid values of a POST body; "" is what data.get("hwid", "") gives for a
\* body without hwid
RequestHwids == {"", "H1", "H2"}
Names == {"lic"}
Orders == {"o1"}

\* ----------------------------------------------------- character strings
Chars(s) == {s[i] : i \in 1..Len(s)}
Digits == {"0", "1", "2", "3", "4", "5", "6", "7", "8", "9"}
DigitVal(c) ==
    CASE c = "0" -> 0 [] c = "1" -> 1 [] c = "2" -> 2 [] c = "3" -> 3
      [] c = "4" -> 4 [] c = "5" -> 5 [] c = "6" -> 6 [] c = "7" -> 7
      [] c = "8" -> 8 [] c = "9" -> 9

\* str.lower() on the characters the inputs use
LowerChar(c) ==
    CASE c = "Y" -> "y" [] c = "M" -> "m" [] c = "D" -> "d" [] c = "H" -> "h"
      [] c = "P" -> "p" [] c = "N" -> "n" [] OTHER -> c
Lower(s) == [i \in 1..Len(s) |-> LowerChar(s[i])]

\* str.strip(): leading and trailing blanks removed
RECURSIVE LStrip(_)
LStrip(s) == IF s # <<>> /\ Head(s) = " " THEN LStrip(Tail(s)) ELSE s
RECURSIVE RStrip(_)
RStrip(s) ==
    IF s # <<>> /\ s[Len(s)] = " " THEN RStrip(SubSeq(s, 1, Len(s) - 1)) ELSE s
Strip(s) == RStrip(LStrip(s))

\* number of leading digits of s
RECURSIVE DigitRun(_)
DigitRun(s) ==
    IF s # <<>> /\ Head(s) \in Digits THEN 1 + DigitRun(Tail(s)) ELSE 0

\* int() of a digit string
RECURSIVE IntOf(_)
IntOf(s) ==
    IF s = <<>> THEN 0
    ELSE 10 * IntOf(SubSeq(s, 1, Len(s) - 1)) + DigitVal(s[Len(s)])

\* a group that takes any character for its unit letter
ComponentAnyUnit(s, u) ==
    LET n == DigitRun(s) IN
    IF n > 0 /\ Len(s) > n
    THEN [val |-> IntOf(SubSeq(s, 1, n)), rest |-> SubSeq(s, n + 2, Len(s))]
    ELSE [val |-> 0, rest |-> s]

\* One optional group (?:(\d+)u)? of the pattern at the head of s: the
\* group's value (default "0") and the rest of the string.
Component(s, u) ==
    LET n == DigitRun(s) IN
    IF n > 0 /\ Len(s) > n /\ s[n + 1] = u
    THEN [val |-> IntOf(SubSeq(s, 1, n)), rest |-> SubSeq(s, n + 2, Len(s))]
    ELSE [val |-> 0, rest |-> s]

Permanent == <<"p", "e", "r", "m", "a", "n", "e", "n", "t">>
Never == <<"n", "e", "v", "e", "r">>
Zero == <<"0">>

\* parse_duration's None
NoneDays == -1

\* day totals with the hours rounded up to whole days
TotalDaysCeil(years, months, days, hours) ==
    years * 365 + months * 30 + days + ((hours + 23) \div 24)

\* the day totals of a duration string that matched the pattern
TotalDays(years, months, days, hours) ==
    LET total == years * 365 + months * 30 + days + (hours \div 24) IN
    IF total > 0 THEN total ELSE 0

parse_duration(duration_str) ==
    IF Lower(duration_str) \in {Permanent, Never, Zero} THEN 0
    ELSE
      LET s == Lower(Strip(duration_str))
          y == Component(s, "y")
          m == Component(y.rest, "m")
          d == Component(m.rest, "d")
          h == Component(d.rest, "h")
      IN IF h.rest # <<>> THEN NoneDays
         ELSE TotalDays(y.val, m.val, d.val, h.val)

\* ------------------------------------------------------------ LicenseKey
\* datetime(year=9999, month=12, day=31), in ticks from the clock's origin
SentinelDay == 2912000
\* the first tick of the year 9999 (is_expired tests expires_at.year >= 9999)
Year9999 == SentinelDay - 364

\* datetime.isoformat() and datetime.fromisoformat(): a string that carries
\* the instant
isoformat(t) == <<"iso", t>>
\* a parse that drops the instant's last digit
fromisoformat_coarse(s) == (s[2] \div 2) * 2
fromisoformat(s) == s[2]

\* generate_key: key_type, "-", and the first 16 hex digits of the SHA-256
\* of "type-user-hwid-timestamp". The digest is kept as the tuple it was
\* computed from: equal inputs give equal ids and different inputs give
\* different ids.
generate_key(key_type, user_id, hwid, timestamp) ==
    <<key_type, user_id, hwid, timestamp>>

\* An id no generate_key call produces here (user 0 is nobody).
BogusKey == <<"AV", 0, "H1", 0>>
NoKey == <<"", 0, "", 0>>

\* str(user_id)
Str(user_id) == ToString(user_id)

LicenseKey(key_id, key_type, user_id, hwid, expires_at, created_at, name, status) ==
    [key_id |-> key_id, key_type |-> key_type, user_id |-> user_id,
     hwid |-> hwid, expires_at |-> expires_at, created_at |-> created_at,
     name |-> name, status |-> status]

NoLicense == LicenseKey(NoKey, "", 0, "", 0, 0, "", "")

to_dict(k) ==
    [key_id |-> k.key_id, key_type |-> k.key_type, user_id |-> k.user_id,
     hwid |-> k.hwid, expires_at |-> isoformat(k.expires_at),
     created_at |-> isoformat(k.created_at), name |-> k.name,
     status |-> k.status]

from_dict(data) ==
    LicenseKey(data.key_id, data.key_type, data.user_id, data.hwid,
               fromisoformat(data.expires_at), fromisoformat(data.created_at),
               data.name, data.status)

NoDict == to_dict(NoLicense)

is_expired(k, t) ==
    IF k.expires_at >= Year9999 THEN FALSE ELSE t > k.expires_at

\* '∞' is written as -1 here; otherwise the whole days left, which is
\* negative once the key has expired
Infinity == -1
days_until_expiry(k, t) ==
    IF k.expires_at >= Year9999 THEN Infinity ELSE k.expires_at - t

\* ---------------------------------------------------------------- dicts
Put(f, k, v) == [x \in DOMAIN f \cup {k} |-> IF x = k THEN v ELSE f[x]]
Del(f, k) == [x \in DOMAIN f \ {k} |-> f[x]]
EmptyKeys == [k \in {} |-> NoDict]

\* list.append(hwid) without the `not in` test
AppendAlways(hwids, hwid) == Append(hwids, hwid)

\* list.append(hwid) unless it is in the list
AppendNew(hwids, hwid) ==
    IF hwid \in Chars(hwids) THEN hwids ELSE Append(hwids, hwid)

\* ------------------------------------------------------------ KeyManager
\* a create_key without the duration_days == 0 branch
expiry_of_sum(duration_days, t) == t + duration_days

\* create_key, lines 168-184: the key object
expiry_of(duration_days, t) ==
    IF duration_days = 0 THEN SentinelDay ELSE t + duration_days

new_license_key(key_type, user_id, hwid, duration_days, name, t) ==
    LicenseKey(generate_key(key_type, user_id, hwid, t), key_type, user_id,
               hwid, expiry_of(duration_days, t), t, name, "deactivated")

\* create_key, lines 185-186: keys_data[key_id] = license_key.to_dict()
create_key_keys(ks, k) == Put(ks, k.key_id, to_dict(k))

\* a profile's fields; registered_at and order are set by register_user only
NotSet == "<not set>"
NoIso == isoformat(-1)
Profile(discord_id, summaries, hwids, registered_at, order) ==
    [discord_id |-> discord_id, keys |-> summaries, hwids |-> hwids,
     registered_at |-> registered_at, order |-> order]

Summary(key_type, expires_at, hwid, status) ==
    [key_type |-> key_type, expires_at |-> expires_at, hwid |-> hwid,
     status |-> status]
NoSummary == Summary("", NoIso, "", "")
EmptySummaries == [k \in {} |-> NoSummary]
EmptyUsers == [u \in {} |-> Profile(0, EmptySummaries, <<>>, NoIso, NotSet)]

\* create_key, lines 188-199: the owner's profile
create_key_users(us, k) ==
    LET user_key == Str(k.user_id)
        p0 == IF user_key \in DOMAIN us THEN us[user_key]
              ELSE Profile(k.user_id, EmptySummaries, <<>>, NoIso, NotSet)
        p1 == [p0 EXCEPT
                 !.keys = Put(p0.keys, k.key_id,
                              Summary(k.key_type, isoformat(k.expires_at),
                                      k.hwid, "deactivated")),
                 !.hwids = AppendNew(p0.hwids, k.hwid)]
    IN Put(us, user_key, p1)

\* activate_key, line 208
activate_key_keys(ks, key_id) == [ks EXCEPT ![key_id].status = "activated"]

\* activate_key, lines 210-213
activate_key_users(us, ks, key_id) ==
    LET user_id == Str(ks[key_id].user_id) IN
    IF user_id \in DOMAIN us /\ key_id \in DOMAIN us[user_id].keys
    THEN [us EXCEPT ![user_id].keys[key_id].status = "activated"]
    ELSE us

\* get_key, lines 219-224; None is NoLicense
get_key(ks, key_id) ==
    IF key_id \in DOMAIN ks THEN from_dict(ks[key_id]) ELSE NoLicense

\* a delete_key without the del of line 234
delete_key_keys_kept(ks, key_id) == ks

\* delete_key, line 234
delete_key_keys(ks, key_id) == Del(ks, key_id)

\* a delete_key that leaves the owner's profile as it is
delete_key_users_kept(us, user_id, key_id) == us

\* delete_key, lines 237-239
delete_key_users(us, user_id, key_id) ==
    IF user_id \in DOMAIN us /\ key_id \in DOMAIN us[user_id].keys
    THEN [us EXCEPT ![user_id].keys = Del(us[user_id].keys, key_id)]
    ELSE us

\* get_user_keys, as the set of the user's LicenseKey objects
get_user_keys(ks, user_id) ==
    {from_dict(ks[k]) : k \in {x \in DOMAIN ks : ks[x].user_id = user_id}}

\* a pre-creation check with is_expired the wrong way round
existing_keys_expired(ks, user_id, key_type, t) ==
    {k \in get_user_keys(ks, user_id) :
        k.key_type = key_type /\ is_expired(k, t)}

\* the pre-creation check of the create_key command and the Generate Key
\* buttons (lines 879, 463, 570)
existing_keys(ks, user_id, key_type, t) ==
    {k \in get_user_keys(ks, user_id) :
        k.key_type = key_type /\ ~is_expired(k, t)}

\* matching_keys of the Reset Key buttons (lines 495, 602)
matching_keys(ks, user_id, key_type) ==
    {k \in get_user_keys(ks, user_id) : k.key_type = key_type}

\* register_user, lines 1133-1148
register_user_users(us, hwid, user_id, order, t) ==
    LET user_key == Str(user_id)
        p0 == IF user_key \in DOMAIN us THEN us[user_key]
              ELSE Profile(user_id, EmptySummaries, <<>>, isoformat(t), order)
    IN Put(us, user_key,
           [p0 EXCEPT !.hwids = AppendNew(p0.hwids, hwid), !.order = order])

\* the resets counter a profile stores for a key_type: no statement writes a
\* "resets_left" entry (create_key 191, register_user 1137-1143; the Reset
\* Key buttons' resets_left = 1 is a local), so reading it finds None
stored_resets_left(us, user_key, key_type) ==
    IF user_key \in DOMAIN us /\ "resets_left" \in DOMAIN us[user_key]
    THEN us[user_key].resets_left[key_type]
    ELSE NoneDays

\* --------------------------------------------------------------- Storage
\* the whole document, as json.dump writes it
Document(ks, us) == [keys |-> ks, users |-> us]

\* ----------------------------------------------------------------- state
VARIABLES
    keys,   \* storage.data["keys"]: key_id -> key dict
    users,  \* storage.data["users"]: str(user_id) -> profile
    disk,   \* the document in data.json
    now,    \* the clock
    bot,    \* the handler the event loop is running (between two awaits that
            \* suspend), with KeyManager's locals
    susp,   \* a handler suspended in its permission helper (fetch_member)
    web,    \* the request the web thread is handling, with its locals
    ops,    \* how many commands, button presses and requests were taken up
    tmp,    \* the file at data.json.tmp, if there is one
    dumped, \* the top-level fields of data.json that are written
    sv      \* where each thread is inside Storage.save / save_sync

vars == <<keys, users, disk, now, bot, susp, web, ops, tmp, dumped, sv>>

\* what only the steps of a save change
files == <<tmp, dumped, sv>>

\* One invocation of a command or button: who may, and the arguments.
\* `allowed` is what the permission helper finds; `user` is the user argument
\* of a command and interaction.user of a button.
Inv(cmd, allowed, ktype, duration, name, user, hwid, key, order) ==
    [cmd |-> cmd, allowed |-> allowed, ktype |-> ktype, duration |-> duration,
     name |-> name, user |-> user, hwid |-> hwid, key |-> key, order |-> order]
NoInv == Inv("", FALSE, "", <<>>, "", 0, "", NoKey, "")

\* duration arguments tried: permanent, one day, one hour, eleven years,
\* and a malformed one
DurationInputs ==
    {Permanent, <<"1", "d">>, <<"1", "h">>, <<"1", "1", "y">>, <<"a", "b", "c">>}

\* key arguments tried: every live key and one that does not exist
KeyInputs == DOMAIN keys \cup {BogusKey}

\* the invocations of those the permission helper lets in
Admitted ==
    {Inv("create_key", TRUE, t, d, n, u, h, NoKey, "") :
        t \in CommandTypes, d \in DurationInputs, n \in Names, u \in Users,
        h \in CommandHwids}
    \cup {Inv(c, TRUE, t, <<>>, "", u, "", NoKey, "") :
        c \in {"generate", "reset"}, t \in PanelTypes, u \in Users}
    \cup {Inv("manage_key", TRUE, "ASTD", <<>>, act, u, "", NoKey, "") :
        act \in {"view", "reset"}, u \in Users}
    \cup {Inv(c, TRUE, "", <<>>, "", 0, "", k, "") :
        c \in {"delete_key", "activate_key"}, k \in KeyInputs}
    \cup {Inv(c, TRUE, "", <<>>, "", u, "", NoKey, "") :
        c \in {"delete_key_all", "delete_all_key"}, u \in Users}
    \cup {Inv("register_user", TRUE, "", <<>>, "", u, h, NoKey, o) :
        u \in Users, h \in CommandHwids, o \in Orders}

\* the invocations of those it does not let in (one duration is enough here:
\* the helper runs before the arguments are looked at)
Refused ==
    {Inv("create_key", FALSE, t, Permanent, n, u, h, NoKey, "") :
        t \in CommandTypes, n \in Names, u \in Users, h \in CommandHwids}
    \cup {[inv EXCEPT !.allowed = FALSE] :
            inv \in {x \in Admitted : x.cmd \notin {"create_key", "manage_key"}}}

Invocations == Admitted \cup Refused

BotIdle ==
    [pc |-> "idle", inv |-> NoInv, lk |-> NoLicense, cur |-> NoKey,
     owner |-> "", todo |-> {}, count |-> 0, res |-> ""]

\* a response of the web thread: the HTTP status, valid/success, the message,
\* and for /check the record and days_left
Response(code, ok, msg, info, days_left) ==
    [code |-> code, ok |-> ok, msg |-> msg, info |-> info,
     days_left |-> days_left]
NoResponse == Response(0, FALSE, "", NoDict, 0)

\* att: key_info is the dict that keys[key] holds; otherwise obj is the dict
\* key_info refers to, which `keys` no longer holds
WebIdle ==
    [pc |-> "idle", op |-> "", key |-> NoKey, hwid |-> "", att |-> FALSE,
     obj |-> NoDict, res |-> NoResponse]

\* ------------------------------------------------------ the files of a save
\* Storage.save and save_sync, lines 76-95: open(tmp, "w"), json.dump into it,
\* close, os.replace(tmp, "data.json"). A file is the top-level fields
\* json.dump has written so far (parts) and what it wrote for them (doc).
AllParts == {"keys", "users"}
EmptyFile ==
    [exists |-> TRUE, doc |-> Document(EmptyKeys, EmptyUsers), parts |-> {}]
NoFile == [EmptyFile EXCEPT !.exists = FALSE]

Threads == {"bot", "web"}

\* at: the statement of the save the thread is at; fd: where the file its
\* descriptor writes to is now ("tmp", "data" once another save's os.replace
\* renamed it, "unlinked" once a later os.replace took its place); err: the
\* thread's save logged "Error saving"
NoSave == [at |-> "idle", fd |-> "closed", err |-> FALSE]
NoSaves == [t \in Threads |-> NoSave]

Init ==
    /\ tmp = NoFile
    /\ dumped = AllParts
    /\ sv = NoSaves
    /\ keys = EmptyKeys
    /\ users = EmptyUsers
    /\ disk = Document(EmptyKeys, EmptyUsers)
    /\ now = 0
    /\ bot = BotIdle
    /\ susp = NoInv
    /\ web = WebIdle
    /\ ops = 0

\* ---------------------------------------------------------------- clock
Tick ==
    /\ now < MaxTime
    /\ now' = now + 1
    /\ UNCHANGED <<keys, users, disk, bot, susp, web, ops>>

\* -------------------------------------------------- the web thread's alias
\* The bot thread takes the dict of key_id out of `keys` (del, or a new dict
\* stored under the id): a key_info the web thread holds keeps the old dict.
WebDetached(w, ks, key_id) ==
    IF w.att /\ w.key = key_id /\ key_id \in DOMAIN ks
    THEN [w EXCEPT !.att = FALSE, !.obj = ks[key_id]]
    ELSE w

\* ------------------------------------------------------ the bot's handlers
\* A handler runs from one suspending await to the next without another
\* handler in between: Storage.get has no await inside, and Storage.save's
\* `async with self.lock` never waits, the lock being released again before
\* the handler reaches an await that suspends. The web thread and the clock
\* do go on between two of its statements, so each Storage.set is a step.

Done(inv, res, count) ==
    [BotIdle EXCEPT !.pc = "done", !.inv = inv, !.res = res, !.count = count]

\* the handler answers (or raises) without touching the store
Reply(inv, res) ==
    /\ bot' = Done(inv, res, 0)
    /\ UNCHANGED <<keys, users, disk, now, web>>

\* has_astd_access and the activate_key command's test call has_exclusive_role
\* and has_manager_role, which nothing defines: whoever is not let in before
\* that call gets a NameError and no answer.
Unanswered == "NameError: no response"

\* the create_key command's 3650 (line 874)
MaxDurationDays == 3650

\* the command's checks without the one of has_key_role
create_key_check_open(inv, ks, t) ==
    LET days == parse_duration(inv.duration) IN
    IF days = NoneDays THEN "Invalid Duration: format"
    ELSE IF days < 0 \/ days > MaxDurationDays THEN "Invalid Duration: range"
    ELSE IF existing_keys(ks, inv.user, inv.ktype, t) # {}
         THEN "Key Already Exists"
    ELSE "ok"

\* create_key command, lines 864-887: the answer, or "ok" to go on
create_key_check(inv, ks, t) ==
    LET days == parse_duration(inv.duration) IN
    IF ~inv.allowed THEN "Permission Denied"
    ELSE IF days = NoneDays THEN "Invalid Duration: format"
    ELSE IF days < 0 \/ days > MaxDurationDays THEN "Invalid Duration: range"
    ELSE IF existing_keys(ks, inv.user, inv.ktype, t) # {}
         THEN "Key Already Exists"
    ELSE "ok"

\* Generate Key buttons, lines 458-466 and 565-573
generate_check(inv, ks, t) ==
    IF ~inv.allowed THEN Unanswered
    ELSE IF existing_keys(ks, inv.user, inv.ktype, t) # {}
         THEN "You already have an active key."
    ELSE "ok"

\* the buttons' duration = "1y"
ButtonDuration == <<"1", "y">>

\* KeyManager.create_key, lines 168-187: the key is built, stored in `keys`
\* and the document saved
CreateKeyStart(inv, key_type, user_id, hwid, days, name) ==
    LET k == new_license_key(key_type, user_id, hwid, days, name, now) IN
    /\ keys' = create_key_keys(keys, k)
    /\ disk' = Document(keys', users)
    /\ web' = WebDetached(web, keys, k.key_id)
    /\ bot' = [BotIdle EXCEPT !.pc = "create_users", !.inv = inv, !.lk = k]
    /\ UNCHANGED <<users, now>>

\* KeyManager.create_key, lines 188-202: the profile, and the second save
CreateKeyUsers ==
    /\ bot.pc = "create_users"
    /\ users' = create_key_users(users, bot.lk)
    /\ disk' = Document(keys, users')
    /\ bot' = [Done(bot.inv,
                    IF bot.inv.cmd = "generate" THEN "Key generated"
                    ELSE "Key Created Successfully", 0)
               EXCEPT !.lk = bot.lk]
    /\ UNCHANGED <<keys, now, susp, web, ops>>

CreateKeyCmd(inv) ==
    /\ inv.cmd = "create_key"
    /\ LET c == create_key_check(inv, keys, now) IN
       IF c = "ok"
       THEN CreateKeyStart(inv, inv.ktype, inv.user, inv.hwid,
                           parse_duration(inv.duration), inv.name)
       ELSE Reply(inv, c)

GenerateKeyButton(inv) ==
    /\ inv.cmd = "generate"
    /\ LET c == generate_check(inv, keys, now) IN
       IF c = "ok"
       THEN CreateKeyStart(inv, inv.ktype, inv.user, Str(inv.user),
                           parse_duration(ButtonDuration), "Auto-generated")
       ELSE Reply(inv, c)

\* what the deleting commands answer after `count` deletions
delete_result(inv, count) ==
    CASE inv.cmd = "delete_key" ->
           IF count > 0 THEN "Key Deleted" ELSE "Key Not Found"
      [] inv.cmd = "delete_key_all" -> "Keys Deleted"
      [] inv.cmd = "delete_all_key" -> "All Keys Deleted"
      [] OTHER -> "Key Reset"

\* KeyManager.delete_key has returned `deleted`: the caller's loop goes on
AfterDelete(b, deleted) ==
    LET c == IF deleted THEN b.count + 1 ELSE b.count IN
    IF b.todo = {} THEN Done(b.inv, delete_result(b.inv, c), c)
    ELSE [b EXCEPT !.pc = "del_next", !.count = c, !.cur = NoKey,
                   !.owner = ""]

\* KeyManager.delete_key, lines 229-235 (or 244 when the key is not there);
\* b holds the caller's locals
DeleteKeyKeys(b, key_id) ==
    IF key_id \in DOMAIN keys
    THEN /\ keys' = delete_key_keys(keys, key_id)
         /\ disk' = Document(keys', users)
         /\ web' = WebDetached(web, keys, key_id)
         /\ bot' = [b EXCEPT !.pc = "del_users", !.cur = key_id,
                             !.owner = Str(keys[key_id].user_id)]
         /\ UNCHANGED <<users, now>>
    ELSE /\ bot' = AfterDelete(b, FALSE)
         /\ UNCHANGED <<keys, users, disk, now, web>>

\* KeyManager.delete_key, lines 237-243
DeleteKeyUsers ==
    /\ bot.pc = "del_users"
    /\ users' = delete_key_users(users, bot.owner, bot.cur)
    /\ disk' = IF users' # users THEN Document(keys, users') ELSE disk
    /\ bot' = AfterDelete(bot, TRUE)
    /\ UNCHANGED <<keys, now, susp, web, ops>>

\* `for key in ...: await KeyManager.delete_key(key.key_id)`: the first key.
\* The keys are taken in any order (the code takes them in dict order).
DeleteLoop(inv, ids) ==
    IF ids = {}
    THEN Reply(inv, delete_result(inv, 0))
    ELSE \E k \in ids :
            DeleteKeyKeys([BotIdle EXCEPT !.inv = inv, !.todo = ids \ {k}], k)

\* the loop's next key
DeleteNext ==
    /\ bot.pc = "del_next"
    /\ \E k \in bot.todo :
          DeleteKeyKeys([bot EXCEPT !.todo = bot.todo \ {k}], k)
    /\ UNCHANGED <<susp, ops>>

KeyIds(ks) == {k.key_id : k \in ks}

\* the Reset Key buttons' local resets_left (lines 496, 603); the answer
\* shows "Resets Left: {resets_left-1}"
ButtonResetsLeft == 1
resets_left_shown == ButtonResetsLeft - 1

\* Reset Key buttons, lines 489-506 and 596-613
ResetKeyButton(inv) ==
    /\ inv.cmd = "reset"
    /\ LET m == matching_keys(keys, inv.user, inv.ktype) IN
       IF ~inv.allowed THEN Reply(inv, Unanswered)
       ELSE IF m = {} THEN Reply(inv, "You don't have a key to reset.")
       ELSE DeleteLoop(inv, KeyIds(m))

\* manage_key, lines 808-848: line 810 calls has_exclusive_role, which is not
\* defined; the NameError is caught at line 845. (inv.name is the action.)
ManageKeyCmd(inv) ==
    /\ inv.cmd = "manage_key"
    /\ Reply(inv, "Error")

\* delete_key command with a license_key, lines 988-992, 1007-1015
DeleteKeyCmd(inv) ==
    /\ inv.cmd = "delete_key"
    /\ IF ~inv.allowed THEN Reply(inv, "Permission Denied")
       ELSE DeleteKeyKeys([BotIdle EXCEPT !.inv = inv], inv.key)

\* delete_key command with all=True and a user, lines 988-1005
DeleteKeyAllCmd(inv) ==
    /\ inv.cmd = "delete_key_all"
    /\ IF ~inv.allowed THEN Reply(inv, "Permission Denied")
       ELSE DeleteLoop(inv, KeyIds(get_user_keys(keys, inv.user)))

\* delete_all_key command, lines 1378-1393
DeleteAllKeyCmd(inv) ==
    /\ inv.cmd = "delete_all_key"
    /\ IF ~inv.allowed THEN Reply(inv, "Permission Denied")
       ELSE DeleteLoop(inv, KeyIds(get_user_keys(keys, inv.user)))

\* activate_key command, lines 1414-1424, into KeyManager.activate_key,
\* lines 206-209 (or 216)
ActivateKeyCmd(inv) ==
    /\ inv.cmd = "activate_key"
    /\ IF ~inv.allowed THEN Reply(inv, Unanswered)
       ELSE IF inv.key \notin DOMAIN keys THEN Reply(inv, "Key Not Found")
       ELSE /\ keys' = activate_key_keys(keys, inv.key)
            /\ disk' = Document(keys', users)
            /\ bot' = [BotIdle EXCEPT !.pc = "act_users", !.inv = inv,
                                      !.cur = inv.key]
            /\ UNCHANGED <<users, now, web>>

\* KeyManager.activate_key, lines 210-215
ActivateKeyUsers ==
    /\ bot.pc = "act_users"
    /\ users' = activate_key_users(users, keys, bot.cur)
    /\ disk' = LET user_id == Str(keys[bot.cur].user_id) IN
               IF user_id \in DOMAIN users
                  /\ bot.cur \in DOMAIN users[user_id].keys
               THEN Document(keys, users') ELSE disk
    /\ bot' = Done(bot.inv, "Key Activated", 0)
    /\ UNCHANGED <<keys, now, susp, web, ops>>

\* register_user command, lines 1126-1163
RegisterUserCmd(inv) ==
    /\ inv.cmd = "register_user"
    /\ IF ~inv.allowed THEN Reply(inv, "Permission Denied")
       ELSE /\ users' = register_user_users(users, inv.hwid, inv.user,
                                            inv.order, now)
            /\ disk' = Document(keys, users')
            /\ bot' = Done(inv, "User Registered", 0)
            /\ UNCHANGED <<keys, now, web>>

\* the handlers whose permission helper awaits guild.fetch_member
\* (has_key_role, has_astd_bypass_role) and so can be suspended there
Suspending ==
    {"create_key", "generate", "reset", "delete_key", "delete_key_all",
     "register_user"}

\* the event loop takes up an invocation and runs its handler at once
Begin ==
    /\ bot.pc = "idle"
    /\ ops < MaxOps
    /\ ops' = ops + 1
    /\ UNCHANGED susp

\* a handler is suspended in its permission helper
Park(S) ==
    /\ susp = NoInv
    /\ ops < MaxOps
    /\ ops' = ops + 1
    /\ \E inv \in S : inv.cmd \in Suspending /\ susp' = inv
    /\ UNCHANGED <<keys, users, disk, now, bot, web>>

\* the suspended handler is resumed
Wake ==
    /\ bot.pc = "idle"
    /\ susp # NoInv
    /\ susp' = NoInv
    /\ UNCHANGED ops

\* the handler has answered
BotReturn ==
    /\ bot.pc = "done"
    /\ bot' = BotIdle
    /\ UNCHANGED <<keys, users, disk, now, susp, web, ops>>

BotStep == CreateKeyUsers \/ DeleteKeyUsers \/ DeleteNext \/ ActivateKeyUsers

\* ------------------------------------------------------- the web thread
WebDone(w, res) == [w EXCEPT !.pc = "done", !.res = res]

\* Flask's answer to a handler that raised
ServerError == Response(500, FALSE, "Internal Server Error", NoDict, 0)

\* check_key, lines 659-682: the answer for the dict found
check_response(key_info, t) ==
    LET expires_at == fromisoformat(key_info.expires_at)
        days_left == IF expires_at >= Year9999 THEN Infinity
                     ELSE expires_at - t
    IN Response(200, TRUE, "", key_info, days_left)

\* check_key, line 683
check_absent == Response(200, FALSE, "", NoDict, 0)

\* POST /check, lines 654-658 and 683
WebCheck(key, hwid) ==
    /\ web.pc = "idle"
    /\ web' = IF key \in DOMAIN keys
              THEN [WebIdle EXCEPT !.pc = "chk_get", !.op = "check",
                                   !.key = key, !.hwid = hwid]
              ELSE WebDone([WebIdle EXCEPT !.op = "check", !.key = key,
                                           !.hwid = hwid], check_absent)
    /\ UNCHANGED <<keys, users, disk, now, bot, susp>>
    /\ ops < MaxOps
    /\ ops' = ops + 1

\* POST /check, lines 659-682; keys_data[key] raises KeyError if the key
\* has gone since line 658
WebCheckGet ==
    /\ web.pc = "chk_get"
    /\ web' = IF web.key \in DOMAIN keys
              THEN WebDone(web, check_response(keys[web.key], now))
              ELSE WebDone(web, ServerError)
    /\ UNCHANGED <<keys, users, disk, now, bot, susp, ops>>

\* POST /activate, lines 687-691 and 703
WebActivate(key, hwid) ==
    /\ web.pc = "idle"
    /\ web' = IF key \in DOMAIN keys
              THEN [WebIdle EXCEPT !.pc = "act_get", !.op = "activate",
                                   !.key = key, !.hwid = hwid]
              ELSE WebDone([WebIdle EXCEPT !.op = "activate", !.key = key,
                                           !.hwid = hwid],
                           Response(200, FALSE, "Key not found.", NoDict, 0))
    /\ UNCHANGED <<keys, users, disk, now, bot, susp>>
    /\ ops < MaxOps
    /\ ops' = ops + 1

\* POST /activate, line 692: key_info = keys_data[key]
WebActivateGet ==
    /\ web.pc = "act_get"
    /\ web' = IF web.key \in DOMAIN keys
              THEN [web EXCEPT !.pc = "act_test", !.att = TRUE]
              ELSE WebDone(web, ServerError)
    /\ UNCHANGED <<keys, users, disk, now, bot, susp, ops>>

\* the dict key_info refers to
KeyInfo(w, ks) == IF w.att THEN ks[w.key] ELSE w.obj

\* a POST /activate without the elif of line 699
activate_branch_strict(key_info, hwid) ==
    IF key_info.status # "activated" /\ hwid = key_info.hwid THEN "activate"
    ELSE "mismatch"

\* POST /activate, lines 694, 699, 701: which branch is taken
activate_branch(key_info, hwid) ==
    IF key_info.status # "activated" /\ hwid = key_info.hwid THEN "activate"
    ELSE IF key_info.status = "activated" THEN "already"
    ELSE "mismatch"

\* POST /activate, lines 694-695 and 699-702
WebActivateTest ==
    /\ web.pc = "act_test"
    /\ LET b == activate_branch(KeyInfo(web, keys), web.hwid) IN
       CASE b = "activate" ->
              /\ keys' = IF web.att THEN activate_key_keys(keys, web.key)
                         ELSE keys
              /\ web' = [web EXCEPT !.pc = "act_put",
                                    !.obj.status =
                                        IF web.att THEN @ ELSE "activated"]
         [] b = "already" ->
              /\ web' = WebDone(web, Response(200, TRUE,
                                   "Key already activated.", NoDict, 0))
              /\ UNCHANGED keys
         [] OTHER ->
              /\ web' = WebDone(web, Response(200, FALSE,
                                   "HWID mismatch or invalid activation.",
                                   NoDict, 0))
              /\ UNCHANGED keys
    /\ UNCHANGED <<users, disk, now, bot, susp, ops>>

\* POST /activate, line 696: keys_data[key] = key_info
WebActivatePut ==
    /\ web.pc = "act_put"
    /\ keys' = IF web.att THEN keys ELSE Put(keys, web.key, web.obj)
    /\ web' = [web EXCEPT !.pc = "act_save", !.att = TRUE, !.obj = NoDict]
    /\ UNCHANGED <<users, disk, now, bot, susp, ops>>

\* POST /activate, lines 697-698: storage.save_sync(storage.data)
WebActivateSave ==
    /\ web.pc = "act_save"
    /\ disk' = Document(keys, users)
    /\ web' = WebDone(web, Response(200, TRUE, "Key activated.", NoDict, 0))
    /\ UNCHANGED <<keys, users, now, bot, susp, ops>>

\* the response has been sent
WebReturn ==
    /\ web.pc = "done"
    /\ web' = WebIdle
    /\ UNCHANGED <<keys, users, disk, now, bot, susp, ops>>

WebStep ==
    WebCheckGet \/ WebActivateGet \/ WebActivateTest \/ WebActivatePut
        \/ WebActivateSave

\* ------------------------------------------------------- specifications
\* The program: the event loop and the web thread side by side. Each handler
\* runs from its permission helper's return to its first Storage.set or its
\* answer. (A handler suspended in its permission helper holds nothing but
\* its arguments; the suspensions are in SpecAwait.)
Next ==
    \/ (Tick /\ UNCHANGED files)
    \/ (Begin /\ UNCHANGED files /\ \E inv \in Invocations : CreateKeyCmd(inv))
    \/ (Begin /\ UNCHANGED files /\ \E inv \in Invocations : GenerateKeyButton(inv))
    \/ (Begin /\ UNCHANGED files /\ \E inv \in Invocations : ResetKeyButton(inv))
    \/ (Begin /\ UNCHANGED files /\ \E inv \in Invocations : ManageKeyCmd(inv))
    \/ (Begin /\ UNCHANGED files /\ \E inv \in Invocations : DeleteKeyCmd(inv))
    \/ (Begin /\ UNCHANGED files /\ \E inv \in Invocations : DeleteKeyAllCmd(inv))
    \/ (Begin /\ UNCHANGED files /\ \E inv \in Invocations : DeleteAllKeyCmd(inv))
    \/ (Begin /\ UNCHANGED files /\ \E inv \in Invocations : ActivateKeyCmd(inv))
    \/ (Begin /\ UNCHANGED files /\ \E inv \in Invocations : RegisterUserCmd(inv))
    \/ (CreateKeyUsers /\ UNCHANGED files)
    \/ (DeleteKeyUsers /\ UNCHANGED files)
    \/ (DeleteNext /\ UNCHANGED files)
    \/ (ActivateKeyUsers /\ UNCHANGED files)
    \/ (BotReturn /\ UNCHANGED files)
    \/ (UNCHANGED files /\ \E key \in KeyInputs, hwid \in RequestHwids :
            WebCheck(key, hwid))
    \/ (UNCHANGED files /\ \E key \in KeyInputs, hwid \in RequestHwids :
            WebActivate(key, hwid))
    \/ (WebCheckGet /\ UNCHANGED files)
    \/ (WebActivateGet /\ UNCHANGED files)
    \/ (WebActivateTest /\ UNCHANGED files)
    \/ (WebActivatePut /\ UNCHANGED files)
    \/ (WebActivateSave /\ UNCHANGED files)
    \/ (WebReturn /\ UNCHANGED files)

Spec == Init /\ [][Next]_vars

\* One operation at a time: a command, button press or request is taken up
\* only when no other is being handled, and the clock moves between
\* operations.
Quiet == bot.pc = "idle" /\ web.pc = "idle"

NextSeq ==
    \/ (Quiet /\ Tick /\ UNCHANGED files)
    \/ (Quiet /\ Begin /\ UNCHANGED files /\ \E inv \in Invocations : CreateKeyCmd(inv))
    \/ (Quiet /\ Begin /\ UNCHANGED files /\ \E inv \in Invocations : GenerateKeyButton(inv))
    \/ (Quiet /\ Begin /\ UNCHANGED files /\ \E inv \in Invocations : ResetKeyButton(inv))
    \/ (Quiet /\ Begin /\ UNCHANGED files /\ \E inv \in Invocations : ManageKeyCmd(inv))
    \/ (Quiet /\ Begin /\ UNCHANGED files /\ \E inv \in Invocations : DeleteKeyCmd(inv))
    \/ (Quiet /\ Begin /\ UNCHANGED files /\ \E inv \in Invocations : DeleteKeyAllCmd(inv))
    \/ (Quiet /\ Begin /\ UNCHANGED files /\ \E inv \in Invocations : DeleteAllKeyCmd(inv))
    \/ (Quiet /\ Begin /\ UNCHANGED files /\ \E inv \in Invocations : ActivateKeyCmd(inv))
    \/ (Quiet /\ Begin /\ UNCHANGED files /\ \E inv \in Invocations : RegisterUserCmd(inv))
    \/ (CreateKeyUsers /\ UNCHANGED files)
    \/ (DeleteKeyUsers /\ UNCHANGED files)
    \/ (DeleteNext /\ UNCHANGED files)
    \/ (ActivateKeyUsers /\ UNCHANGED files)
    \/ (BotReturn /\ UNCHANGED files)
    \/ (Quiet /\ UNCHANGED files /\ \E key \in KeyInputs, hwid \in RequestHwids :
            WebCheck(key, hwid))
    \/ (Quiet /\ UNCHANGED files /\ \E key \in KeyInputs, hwid \in RequestHwids :
            WebActivate(key, hwid))
    \/ (WebCheckGet /\ UNCHANGED files)
    \/ (WebActivateGet /\ UNCHANGED files)
    \/ (WebActivateTest /\ UNCHANGED files)
    \/ (WebActivatePut /\ UNCHANGED files)
    \/ (WebActivateSave /\ UNCHANGED files)
    \/ (WebReturn /\ UNCHANGED files)

SpecSeq == Init /\ [][NextSeq]_vars

\* The event loop alone, creating and deleting keys, with its handlers
\* suspended and resumed at their awaits.
AwaitInvocations ==
    {inv \in Admitted :
        /\ inv.cmd \in {"create_key", "generate", "reset", "delete_key"}
        /\ inv.duration \in {<<>>, Permanent, <<"1", "d">>}}

NextAwait ==
    \/ (bot.pc = "idle" /\ Tick /\ UNCHANGED files)
    \/ (Begin /\ UNCHANGED files /\ \E inv \in AwaitInvocations : CreateKeyCmd(inv))
    \/ (Begin /\ UNCHANGED files /\ \E inv \in AwaitInvocations : GenerateKeyButton(inv))
    \/ (Begin /\ UNCHANGED files /\ \E inv \in AwaitInvocations : ResetKeyButton(inv))
    \/ (Begin /\ UNCHANGED files /\ \E inv \in AwaitInvocations : DeleteKeyCmd(inv))
    \/ (Park(AwaitInvocations) /\ UNCHANGED files)
    \/ (Wake /\ CreateKeyCmd(susp) /\ UNCHANGED files)
    \/ (Wake /\ GenerateKeyButton(susp) /\ UNCHANGED files)
    \/ (Wake /\ ResetKeyButton(susp) /\ UNCHANGED files)
    \/ (Wake /\ DeleteKeyCmd(susp) /\ UNCHANGED files)
    \/ (CreateKeyUsers /\ UNCHANGED files)
    \/ (DeleteKeyUsers /\ UNCHANGED files)
    \/ (DeleteNext /\ UNCHANGED files)
    \/ (BotReturn /\ UNCHANGED files)

SpecAwait == Init /\ [][NextAwait]_vars

\* ----------------------------------------------------------- properties
\* no command, button press or request is being handled
AtRest == bot.pc \in {"idle", "done"} /\ web.pc \in {"idle", "done"}

\* C1. With the operations run one at a time (SpecSeq), whenever every
\* operation taken up has completed, a key_id is in `keys` if and only if it
\* is in the `keys` summary of some profile in `users`.
C1_KeysIffSummaries ==
    AtRest =>
        /\ \A k \in DOMAIN keys :
              \E u \in DOMAIN users : k \in DOMAIN users[u].keys
        /\ \A u \in DOMAIN users :
              \A k \in DOMAIN users[u].keys : k \in DOMAIN keys

\* a delete_key command has deleted one key and another key is left
C1_DeletedOneOfTwo ==
    /\ bot.pc = "done"
    /\ bot.inv.cmd = "delete_key"
    /\ bot.count = 1
    /\ web.pc = "idle"
    /\ DOMAIN keys # {}

\* C2. With create_key commands, Generate Key presses and deletions suspended
\* and resumed at their awaits (SpecAwait), no user ever owns two non-expired
\* keys of one key_type; and a creation for a user who holds a non-expired
\* key of that type is answered by the pre-creation check's rejection and
\* leaves `keys` and `users` as they were.
C2_OneLiveKeyPerType ==
    /\ [](\A a, b \in DOMAIN keys :
            (/\ a # b
             /\ keys[a].user_id = keys[b].user_id
             /\ keys[a].key_type = keys[b].key_type
             /\ ~is_expired(from_dict(keys[a]), now))
            => is_expired(from_dict(keys[b]), now))
    /\ [][(/\ bot.pc = "idle"
           /\ bot'.pc # "idle"
           /\ bot'.inv.cmd \in {"create_key", "generate"}
           /\ bot'.inv.allowed
           /\ (bot'.inv.cmd = "create_key"
                 => parse_duration(bot'.inv.duration) \in 0..MaxDurationDays)
           /\ \E k \in DOMAIN keys :
                 /\ keys[k].user_id = bot'.inv.user
                 /\ keys[k].key_type = bot'.inv.ktype
                 /\ ~is_expired(from_dict(keys[k]), now))
          => (/\ bot'.pc = "done"
              /\ bot'.res \in {"Key Already Exists",
                               "You already have an active key."}
              /\ keys' = keys
              /\ users' = users)]_vars

\* a create_key command was rejected by the pre-creation check while a
\* Generate Key press is suspended in its permission helper
C2_RejectedWhileSuspended ==
    /\ bot.pc = "done"
    /\ bot.inv.cmd = "create_key"
    /\ bot.res = "Key Already Exists"
    /\ susp.cmd = "generate"
    /\ DOMAIN keys # {}

\* C3. Whenever every key mutation taken up has completed, each key in `keys`
\* has, under its owner's profile, a summary with the key record's key_type,
\* expires_at, hwid and status.
C3_SummaryMatchesRecord ==
    AtRest =>
        \A k \in DOMAIN keys :
            LET owner == Str(keys[k].user_id) IN
            /\ owner \in DOMAIN users
            /\ k \in DOMAIN users[owner].keys
            /\ users[owner].keys[k] =
                  Summary(keys[k].key_type, keys[k].expires_at, keys[k].hwid,
                          keys[k].status)

\* C4. The document on disk never holds a key_id in `keys` that its owner's
\* summary lacks, nor a summary entry whose key_id `keys` lacks.
C4_DiskConsistent ==
    /\ \A k \in DOMAIN disk.keys :
          LET owner == Str(disk.keys[k].user_id) IN
          owner \in DOMAIN disk.users /\ k \in DOMAIN disk.users[owner].keys
    /\ \A u \in DOMAIN disk.users :
          \A k \in DOMAIN disk.users[u].keys : k \in DOMAIN disk.keys

\* C5. KeyManager.activate_key goes through only on a key whose status is
\* deactivated; and a POST /activate that activates does so on a deactivated
\* key, after which the stored hwid is the caller's and the status activated.
C5_ActivationOnlyWhenDeactivated ==
    [][/\ (bot.pc = "idle" /\ bot'.pc = "act_users")
            => keys[bot'.cur].status = "deactivated"
       /\ (web.pc = "act_test" /\ web'.pc = "act_put")
            => /\ KeyInfo(web, keys).status = "deactivated"
               /\ KeyInfo(web', keys').hwid = web.hwid
               /\ KeyInfo(web', keys').status = "activated"]_vars

\* C6. A POST /activate on an activated key with a hwid other than the stored
\* one is answered success=false, with a message other than that of a key
\* that does not exist.
C6_SecondActivationRejected ==
    (/\ web.pc = "done"
     /\ web.op = "activate"
     /\ web.key \in DOMAIN keys
     /\ keys[web.key].status = "activated"
     /\ web.hwid # keys[web.key].hwid)
    => (~web.res.ok /\ web.res.msg # "Key not found.")

\* C7. A POST /activate on an activated key with the hwid stored on it
\* changes neither `keys` nor `users` (nor the file) at any of its steps and
\* is answered success=true.
C7_ActivateIdempotent ==
    [][(/\ web.pc \in {"idle", "act_get", "act_test"}
        /\ web' # web
        /\ web'.op = "activate"
        /\ web'.key \in DOMAIN keys
        /\ keys[web'.key].status = "activated"
        /\ web'.hwid = keys[web'.key].hwid)
       => (/\ keys' = keys
           /\ users' = users
           /\ disk' = disk
           /\ web'.pc = "done"
                 => web'.res = Response(200, TRUE, "Key already activated.",
                                        NoDict, 0))]_vars

\* the request was answered "Key already activated." to the stored hwid
C7_AnsweredAlreadyActivated ==
    /\ web.pc = "done"
    /\ web.op = "activate"
    /\ web.res.msg = "Key already activated."
    /\ web.key \in DOMAIN keys
    /\ web.hwid = keys[web.key].hwid
    /\ keys[web.key].status = "activated"

\* C8. A POST /activate with an empty (or missing) hwid changes no key and
\* is answered success=false.
C8_EmptyHwidRejected ==
    [][(/\ web' # web
        /\ web'.op = "activate"
        /\ web'.hwid = "")
       => (/\ keys' = keys
           /\ web'.pc = "done" => ~web'.res.ok)]_vars

\* C9. A POST /activate for a key that is absent or expired changes nothing
\* stored and is answered success=false.
C9_AbsentOrExpiredRejected ==
    [][(/\ web.pc \in {"idle", "act_get", "act_test"}
        /\ web' # web
        /\ web'.op = "activate"
        /\ (web'.key \in DOMAIN keys
              => is_expired(from_dict(keys[web'.key]), now)))
       => (/\ keys' = keys
           /\ users' = users
           /\ disk' = disk
           /\ web'.pc = "done" => ~web'.res.ok)]_vars

\* C10. A POST /check for an activated key is answered valid=true when the
\* caller's hwid is the stored one and valid=false when it is another.
C10_CheckComparesHwid ==
    (/\ web.pc = "done"
     /\ web.op = "check"
     /\ web.key \in DOMAIN keys
     /\ keys[web.key].status = "activated")
    => (web.res.ok <=> web.hwid = keys[web.key].hwid)

\* C11. A POST /check is answered valid=true exactly for a key that is in
\* `keys` and not expired: an absent key and an expired key get valid=false.
C11_CheckRejectsExpired ==
    (web.pc = "done" /\ web.op = "check")
    => (web.res.ok <=>
          /\ web.key \in DOMAIN keys
          /\ ~is_expired(from_dict(keys[web.key]), now))

\* C12. KeyManager.delete_key(k), called for a key that is in `keys`, returns
\* True (the caller counts it) and leaves k in neither `keys` nor any
\* profile's summary, get_key(k) finding nothing; called by the delete_key
\* command for a key that is not in `keys`, it returns False and leaves
\* `keys` and `users` as they were.
C12_DeleteKey ==
    [][/\ (bot.pc = "del_users" /\ bot' # bot)
            => /\ bot.cur \notin DOMAIN keys'
               /\ \A u \in DOMAIN users' : bot.cur \notin DOMAIN users'[u].keys
               /\ get_key(keys', bot.cur) = NoLicense
               /\ bot'.count = bot.count + 1
       /\ (/\ bot.pc = "idle"
           /\ bot'.pc # "idle"
           /\ bot'.inv.cmd = "delete_key"
           /\ bot'.inv.allowed)
            => IF bot'.inv.key \in DOMAIN keys
               THEN /\ bot'.pc = "del_users"
                    /\ bot'.cur = bot'.inv.key
                    /\ bot'.count = 0
               ELSE /\ bot' = Done(bot'.inv, "Key Not Found", 0)
                    /\ keys' = keys
                    /\ users' = users
       /\ (bot'.pc = "done" /\ bot'.inv.cmd = "delete_key" /\ bot' # bot)
            => (bot'.res = "Key Deleted" <=> bot'.count = 1)]_vars

\* a delete_key command has answered "Key Deleted" and the owner's profile
\* is still there, without the key
C12_DeletedFromBoth ==
    /\ bot.pc = "done"
    /\ bot.inv.cmd = "delete_key"
    /\ bot.res = "Key Deleted"
    /\ bot.inv.key \notin DOMAIN keys
    /\ Str(bot.inv.key[2]) \in DOMAIN users
    /\ bot.inv.key \notin DOMAIN users[Str(bot.inv.key[2])].keys

\* C13. When KeyManager.create_key(t, u, h, d, n) has returned key k (called
\* by the create_key command or a Generate Key button, operations one at a
\* time), `keys` holds under k.key_id a record with key_type t, user_id u,
\* hwid h, name n and status deactivated, the profile users[str(u)] exists
\* with k.key_id in its summary, and h is in its hwids list exactly once.
C13_CreateKeyPostcondition ==
    (/\ bot.pc = "done"
     /\ bot.inv.cmd \in {"create_key", "generate"}
     /\ bot.lk # NoLicense)
    => LET inv == bot.inv
           k == bot.lk.key_id
           h == IF inv.cmd = "generate" THEN Str(inv.user) ELSE inv.hwid
           n == IF inv.cmd = "generate" THEN "Auto-generated" ELSE inv.name
           user_key == Str(inv.user)
       IN /\ k \in DOMAIN keys
          /\ keys[k].key_id = k
          /\ keys[k].key_type = inv.ktype
          /\ keys[k].user_id = inv.user
          /\ keys[k].hwid = h
          /\ keys[k].name = n
          /\ keys[k].status = "deactivated"
          /\ user_key \in DOMAIN users
          /\ k \in DOMAIN users[user_key].keys
          /\ Cardinality({i \in 1..Len(users[user_key].hwids) :
                             users[user_key].hwids[i] = h}) = 1

\* create_key has returned a user's second key, made with a hwid the profile
\* already had
C13_SecondKeySameHwid ==
    /\ bot.pc = "done"
    /\ bot.inv.cmd = "create_key"
    /\ bot.lk # NoLicense
    /\ Str(bot.inv.user) \in DOMAIN users
    /\ Cardinality(DOMAIN users[Str(bot.inv.user)].keys) = 2
    /\ \A k \in DOMAIN users[Str(bot.inv.user)].keys :
          k \in DOMAIN keys /\ keys[k].hwid = bot.inv.hwid

\* ------------------------------------------------- KeyManager called as is
\* KeyManager's static methods called directly, without a command's checks
\* before them: create_key with any arguments, activate_key and delete_key
\* for any key.
ApiDays == {0, 1}

ApiCall(method, key_type, user_id, hwid, name, key_id) ==
    Inv(method, TRUE, key_type, <<>>, name, user_id, hwid, key_id, "")

ApiCreateKey ==
    /\ Begin
    /\ \E t \in CommandTypes, u \in Users, h \in CommandHwids, d \in ApiDays,
          n \in Names :
          CreateKeyStart(ApiCall("KeyManager.create_key", t, u, h, n, NoKey),
                         t, u, h, d, n)

ApiActivateKey ==
    /\ Begin
    /\ \E k \in KeyInputs :
          ActivateKeyCmd(ApiCall("activate_key", "", 0, "", "", k))

ApiDeleteKey ==
    /\ Begin
    /\ \E k \in KeyInputs :
          DeleteKeyCmd(ApiCall("delete_key", "", 0, "", "", k))

NextApi ==
    \/ (bot.pc = "idle" /\ Tick /\ UNCHANGED files)
    \/ (ApiCreateKey /\ UNCHANGED files)
    \/ (ApiActivateKey /\ UNCHANGED files)
    \/ (ApiDeleteKey /\ UNCHANGED files)
    \/ (CreateKeyUsers /\ UNCHANGED files)
    \/ (ActivateKeyUsers /\ UNCHANGED files)
    \/ (DeleteKeyUsers /\ UNCHANGED files)
    \/ (BotReturn /\ UNCHANGED files)

SpecApi == Init /\ [][NextApi]_vars

\* C14. The key_id under which create_key stores a record is not in `keys`
\* before the call: create_key never replaces a record, also when it is
\* called again with the same key_type, user_id and hwid in the same second.
C14_CreateKeyNeverOverwrites ==
    [][(bot.pc = "idle" /\ bot'.pc = "create_users")
       => bot'.lk.key_id \notin DOMAIN keys]_vars

\* check times: every tick of the clock and beyond, the buttons' year, the
\* longest duration, and the sentinel's year to its last day
CheckTimes ==
    (0..(MaxTime + 2))
        \cup {365, 366, MaxDurationDays, MaxDurationDays + MaxTime + 1,
              Year9999 - 1, Year9999, SentinelDay}

\* C15. A key that create_key made with duration_days = 0 has the year-9999
\* sentinel as expires_at and is_expired() false at every check time; a key
\* made with duration_days = d > 0 expires d days after its creation:
\* is_expired() is false up to then and true afterwards. This stays so for
\* as long as the key is stored.
C15_Expiry ==
    /\ \A id \in DOMAIN keys :
          LET k == from_dict(keys[id]) IN
          IF k.expires_at = SentinelDay
          THEN \A t \in CheckTimes : ~is_expired(k, t)
          ELSE /\ k.expires_at - k.created_at \in 1..MaxDurationDays
               /\ \A t \in CheckTimes :
                     is_expired(k, t) <=> t > k.expires_at
    /\ (/\ bot.pc = "done"
        /\ bot.inv.cmd \in {"create_key", "generate"}
        /\ bot.lk # NoLicense)
       => LET d == IF bot.inv.cmd = "generate"
                   THEN parse_duration(ButtonDuration)
                   ELSE parse_duration(bot.inv.duration)
              k == from_dict(keys[bot.lk.key_id])
          IN /\ d = 0 => k.expires_at = SentinelDay
             /\ d > 0 => k.expires_at = k.created_at + d
             /\ k.created_at = now

\* the clock has run to its end with a permanent key, which is not expired,
\* and a one-day key, which is
C15_PermanentAndExpired ==
    /\ now = MaxTime
    /\ \E a, b \in DOMAIN keys :
          /\ from_dict(keys[a]).expires_at = SentinelDay
          /\ ~is_expired(from_dict(keys[a]), now)
          /\ from_dict(keys[b]).expires_at = from_dict(keys[b]).created_at + 1
          /\ is_expired(from_dict(keys[b]), now)

\* C16. After a self-service reset of an existing key (a Reset Key button,
\* manage_key with action reset) the user has no key of that type left, so
\* get_key finds none, and the profile holds a resets counter for the type,
\* a number not below zero, which the reset has lowered.
C16_ResetCounted ==
    /\ (bot.pc = "done" /\ bot.inv.cmd = "reset" /\ bot.count > 0)
       => /\ matching_keys(keys, bot.inv.user, bot.inv.ktype) = {}
          /\ stored_resets_left(users, Str(bot.inv.user), bot.inv.ktype)
                \in Nat
    /\ (bot.pc = "done" /\ bot.inv.cmd = "manage_key"
           /\ bot.inv.name = "reset")
       => matching_keys(keys, bot.inv.user, bot.inv.ktype) = {}

\* C17. A user whose resets for a key_type are used up (the Reset Key button
\* has just reset that user's key and answered "Resets Left: 0") is refused a
\* new key of that type: the pre-creation checks of the Generate Key button
\* and of the create_key command do not let the creation go on.
C17_NoResetsNoKey ==
    (/\ bot.pc = "done"
     /\ bot.inv.cmd = "reset"
     /\ bot.count > 0
     /\ resets_left_shown = 0)
    => \A inv \in Admitted :
          (/\ inv.user = bot.inv.user
           /\ inv.ktype = bot.inv.ktype
           /\ inv.cmd \in {"generate", "create_key"})
          => /\ inv.cmd = "generate" => generate_check(inv, keys, now) # "ok"
             /\ inv.cmd = "create_key"
                   => create_key_check(inv, keys, now) # "ok"

\* ------------------------------------- Storage.save and save_sync, by step
\* SpecSave: the create_key and delete_key commands on the event loop and
\* POST /activate on the web thread, with every save taken statement by
\* statement. Storage.set (lines 101-104) has put the mapping into the
\* document; Storage.save (86-95) and save_sync (76-84) then open the same
\* temporary path, dump the document into it and rename it to data.json.

\* the thread is between the first and the last statement of a save
BotSaving == bot.pc \in {"save_keys", "save_users"}
WebSaving == web.pc = "act_save"
InSave(t) == IF t = "bot" THEN BotSaving ELSE WebSaving

\* who holds storage.lock: Storage.save takes it for the whole save (line
\* 88), save_sync takes nothing
lock_holder == IF BotSaving /\ sv["bot"].at # "saved" THEN "bot" ELSE "nobody"

\* os.replace that keeps an open descriptor on the temporary path
kept_path(fd) == fd

\* json.dump writes one top-level field
written(f, part, val) ==
    [f EXCEPT !.doc = [@ EXCEPT ![part] = val], !.parts = @ \cup {part}]

\* os.replace has renamed the temporary file: where an open descriptor's
\* file is afterwards
renamed(fd) ==
    IF fd = "tmp" THEN "data" ELSE IF fd = "data" THEN "unlinked" ELSE fd


\* lines 79 and 91: open(tmp, "w") creates the file or truncates the one
\* that is there
SaveOpen(t) ==
    /\ InSave(t)
    /\ sv[t].at = "idle"
    /\ tmp' = EmptyFile
    /\ sv' = [sv EXCEPT ![t] = [@ EXCEPT !.at = "keys", !.fd = "tmp"]]
    /\ UNCHANGED <<keys, users, disk, dumped, now, bot, susp, web, ops>>

\* lines 80 and 92: json.dump(data, f, indent=2) walks the live document and
\* writes as it goes, at the descriptor's own offset
SaveWrite(t, part, next) ==
    /\ InSave(t)
    /\ sv[t].at = part
    /\ LET val == IF part = "keys" THEN keys ELSE users IN
       /\ tmp' = IF sv[t].fd = "tmp" THEN written(tmp, part, val) ELSE tmp
       /\ disk' = IF sv[t].fd = "data" THEN [disk EXCEPT ![part] = val]
                  ELSE disk
       /\ dumped' = IF sv[t].fd = "data" THEN dumped \cup {part} ELSE dumped
    /\ sv' = [sv EXCEPT ![t] =
                [@ EXCEPT !.at = next,
                          !.fd = IF next = "replace" THEN "closed" ELSE @]]
    /\ UNCHANGED <<keys, users, now, bot, susp, web, ops>>

SaveWriteKeys(t) == sv[t].at = "keys" /\ SaveWrite(t, "keys", "users")

\* the last write, and the end of the `with`: the file is closed
SaveWriteUsers(t) == sv[t].at = "users" /\ SaveWrite(t, "users", "replace")

\* lines 81 and 93: os.replace(tmp, self.filename); with no file at the
\* temporary path it raises, and lines 82-83 and 94-95 log "Error saving"
SaveReplace(t) ==
    /\ InSave(t)
    /\ sv[t].at = "replace"
    /\ IF tmp = NoFile
       THEN /\ sv' = [sv EXCEPT ![t] = [@ EXCEPT !.at = "saved",
                                                 !.err = TRUE]]
            /\ UNCHANGED <<tmp, disk, dumped>>
       ELSE /\ disk' = tmp.doc
            /\ dumped' = tmp.parts
            /\ tmp' = NoFile
            /\ sv' = [u \in Threads |->
                        IF u = t THEN [sv[u] EXCEPT !.at = "saved"]
                        ELSE [sv[u] EXCEPT !.fd = renamed(@)]]
    /\ UNCHANGED <<keys, users, now, bot, susp, web, ops>>

\* create_key command, lines 864-888, and KeyManager.create_key, lines
\* 168-187, up to Storage.set's line 103
SaveCreateKeyCmd(inv) ==
    /\ inv.cmd = "create_key"
    /\ LET c == create_key_check(inv, keys, now)
           k == new_license_key(inv.ktype, inv.user, inv.hwid,
                                parse_duration(inv.duration), inv.name, now)
       IN
       IF c = "ok"
       THEN /\ keys' = create_key_keys(keys, k)
            /\ web' = WebDetached(web, keys, k.key_id)
            /\ bot' = [BotIdle EXCEPT !.pc = "save_keys", !.inv = inv,
                                      !.lk = k]
            /\ sv' = [sv EXCEPT !["bot"] = NoSave]
            /\ UNCHANGED <<users, disk, now, tmp, dumped>>
       ELSE Reply(inv, c) /\ UNCHANGED files

\* delete_key command, lines 1007-1010, and KeyManager.delete_key, lines
\* 229-235, up to Storage.set's line 103
SaveDeleteKeyCmd(inv) ==
    /\ inv.cmd = "delete_key"
    /\ IF ~inv.allowed THEN Reply(inv, "Permission Denied") /\ UNCHANGED files
       ELSE IF inv.key \in DOMAIN keys
       THEN /\ keys' = delete_key_keys(keys, inv.key)
            /\ web' = WebDetached(web, keys, inv.key)
            /\ bot' = [BotIdle EXCEPT !.pc = "save_keys", !.inv = inv,
                                      !.cur = inv.key,
                                      !.owner = Str(keys[inv.key].user_id)]
            /\ sv' = [sv EXCEPT !["bot"] = NoSave]
            /\ UNCHANGED <<users, disk, now, tmp, dumped>>
       ELSE Reply(inv, delete_result(inv, 0)) /\ UNCHANGED files

\* the handler's answer
SaveAnswer(b) ==
    IF b.inv.cmd = "create_key"
    THEN [Done(b.inv, "Key Created Successfully", 0) EXCEPT !.lk = b.lk]
    ELSE Done(b.inv, delete_result(b.inv, 1), 1)

\* the first Storage.set has returned: KeyManager.create_key, lines 188-200,
\* and KeyManager.delete_key, lines 237-243, up to Storage.set's line 103
SaveUsers ==
    /\ bot.pc = "save_keys"
    /\ sv["bot"].at = "saved"
    /\ users' = IF bot.inv.cmd = "create_key"
                THEN create_key_users(users, bot.lk)
                ELSE delete_key_users(users, bot.owner, bot.cur)
    /\ bot' = IF bot.inv.cmd = "create_key" \/ users' # users
              THEN [bot EXCEPT !.pc = "save_users"]
              ELSE SaveAnswer(bot)
    /\ sv' = [sv EXCEPT !["bot"] = [@ EXCEPT !.at = "idle"]]
    /\ UNCHANGED <<keys, disk, now, susp, web, ops, tmp, dumped>>

\* the second Storage.set has returned: lines 202 and 243, and the answer
SaveAnswered ==
    /\ bot.pc = "save_users"
    /\ sv["bot"].at = "saved"
    /\ bot' = SaveAnswer(bot)
    /\ sv' = [sv EXCEPT !["bot"] = [@ EXCEPT !.at = "idle"]]
    /\ UNCHANGED <<keys, users, disk, now, susp, web, ops, tmp, dumped>>

\* POST /activate, lines 694-702: with the status set (695) a save is to come
SaveActivateTest ==
    /\ WebActivateTest
    /\ sv' = IF web'.pc = "act_put" THEN [sv EXCEPT !["web"] = NoSave]
             ELSE sv
    /\ UNCHANGED <<tmp, dumped>>

\* POST /activate, line 698: save_sync has returned
SaveActivated ==
    /\ web.pc = "act_save"
    /\ sv["web"].at = "saved"
    /\ web' = WebDone(web, Response(200, TRUE, "Key activated.", NoDict, 0))
    /\ sv' = [sv EXCEPT !["web"] = [@ EXCEPT !.at = "idle"]]
    /\ UNCHANGED <<keys, users, disk, now, bot, susp, ops, tmp, dumped>>

SaveInvocations ==
    {inv \in Admitted :
        /\ inv.cmd \in {"create_key", "delete_key"}
        /\ inv.duration \in {<<>>, Permanent}
        /\ inv.ktype \in {"", "AV"}}

SaveHwids == {"H1", "H2"}

NextSave ==
    \/ (Tick /\ UNCHANGED files)
    \/ (Begin /\ \E inv \in SaveInvocations : SaveCreateKeyCmd(inv))
    \/ (Begin /\ \E inv \in SaveInvocations : SaveDeleteKeyCmd(inv))
    \/ SaveUsers
    \/ SaveAnswered
    \/ (BotReturn /\ UNCHANGED files)
    \/ (UNCHANGED files /\ \E key \in KeyInputs, hwid \in SaveHwids :
            WebActivate(key, hwid))
    \/ (WebActivateGet /\ UNCHANGED files)
    \/ SaveActivateTest
    \/ (WebActivatePut /\ UNCHANGED files)
    \/ SaveActivated
    \/ (WebReturn /\ UNCHANGED files)
    \/ (\E t \in Threads : SaveOpen(t))
    \/ (\E t \in Threads : SaveWriteKeys(t))
    \/ (\E t \in Threads : SaveWriteUsers(t))
    \/ (\E t \in Threads : SaveReplace(t))

SpecSave == Init /\ [][NextSave]_vars

\* a thread has changed `keys` or `users` in memory and its save of that
\* change has not returned yet
BotSequence == BotSaving /\ sv["bot"].at # "saved"
WebSequence == web.pc = "act_put" \/ (WebSaving /\ sv["web"].at # "saved")

\* the thread is between open(tmp, "w") and the end of os.replace
Persisting(t) == InSave(t) /\ sv[t].at \in {"keys", "users", "replace"}

\* C18. Mutating sequences (a change of `keys` or `users` in memory followed
\* by its save) are serialized by the storage lock: the event loop's and the
\* web thread's sequences are never in progress at the same time, and a
\* thread that is writing or renaming the temporary file holds the lock.
C18_SerializedByLock ==
    /\ ~(BotSequence /\ WebSequence)
    /\ \A t \in Threads : Persisting(t) => lock_holder = t

\* C19. At every instant, with Storage.save and save_sync running side by
\* side through the shared temporary path (a crash can stop the process in
\* any state), data.json is a whole document: every top-level field of it
\* has been written. (The claim asks more: that it equals the document in
\* memory at the start of one save.)
C19_FileNeverPartial == dumped = AllParts

\* no handler of the event loop and no request of the web thread is between
\* a change of the document in memory and the end of its save
NoMutationInProgress == bot.pc \in {"idle", "done"} /\ ~WebSequence

\* no save of either thread's last mutating operation has logged "Error
\* saving"
NoSaveFailed == \A t \in Threads : ~sv[t].err

\* C20. Whenever the mutating operations taken up have completed without an
\* I/O failure and no mutation is in progress, data.json equals the document
\* in memory in full.
C20_DiskEqualsMemory ==
    (NoMutationInProgress /\ NoSaveFailed) =>
        (dumped = AllParts /\ disk = Document(keys, users))

\* a create_key command and a POST /activate have both changed the document
\* and saved it, neither save failing
C20_CreatedAndActivated ==
    /\ bot.pc = "done" /\ bot.res = "Key Created Successfully"
    /\ web.pc = "done" /\ web.res.msg = "Key activated."
    /\ NoSaveFailed

\* ------------------------------------------------- I/O failures of a save
\* a save without the try: the exception leaves Storage.set
propagated(s) == [s EXCEPT !.at = "raised", !.fd = "closed", !.err = TRUE]

\* lines 82-83 and 94-95: `except Exception` logs the error and the save
\* returns
after_error(s) == [s EXCEPT !.at = "saved", !.fd = "closed", !.err = TRUE]

\* open, json.dump or os.replace raises (no permission, disk full, ...): the
\* temporary file is left as it is
SaveFails(t) ==
    /\ InSave(t)
    /\ sv[t].at \in {"idle", "keys", "users", "replace"}
    /\ sv' = [sv EXCEPT ![t] = after_error(@)]
    /\ UNCHANGED <<keys, users, disk, now, bot, susp, web, ops, tmp, dumped>>

\* what data.json holds when the process starts: a whole document (the
\* default one, or one with a key in it) or one that json.load cannot read
StartKey == new_license_key("AV", 1, "H1", 0, "lic", 0)
StartDocument ==
    Document(create_key_keys(EmptyKeys, StartKey),
             create_key_users(EmptyUsers, StartKey))
StartFiles ==
    {[EmptyFile EXCEPT !.parts = AllParts],
     [EmptyFile EXCEPT !.doc = StartDocument, !.parts = AllParts],
     [EmptyFile EXCEPT !.doc = StartDocument, !.parts = {"keys"}]}

\* Storage.load_data, lines 52-74: the document read, or the default one
\* when json.load raises
load_data(f) ==
    IF f.exists /\ f.parts = AllParts THEN f.doc
    ELSE Document(EmptyKeys, EmptyUsers)

InitIo ==
    /\ \E f \in StartFiles :
          /\ disk = f.doc
          /\ dumped = f.parts
          /\ keys = load_data(f).keys
          /\ users = load_data(f).users
    /\ tmp = NoFile
    /\ sv = NoSaves
    /\ now = 0
    /\ bot = BotIdle
    /\ susp = NoInv
    /\ web = WebIdle
    /\ ops = 0

\* SpecIo: one operation at a time, its saves taken statement by statement,
\* each of which can fail
NextIo ==
    \/ (Quiet /\ Tick /\ UNCHANGED files)
    \/ (Quiet /\ Begin /\ \E inv \in SaveInvocations : SaveCreateKeyCmd(inv))
    \/ (Quiet /\ Begin /\ \E inv \in SaveInvocations : SaveDeleteKeyCmd(inv))
    \/ SaveUsers
    \/ SaveAnswered
    \/ (BotReturn /\ UNCHANGED files)
    \/ (Quiet /\ UNCHANGED files /\ \E key \in KeyInputs, hwid \in SaveHwids :
            WebActivate(key, hwid))
    \/ (WebActivateGet /\ UNCHANGED files)
    \/ SaveActivateTest
    \/ (WebActivatePut /\ UNCHANGED files)
    \/ SaveActivated
    \/ (WebReturn /\ UNCHANGED files)
    \/ (\E t \in Threads : SaveOpen(t))
    \/ (\E t \in Threads : SaveWriteKeys(t))
    \/ (\E t \in Threads : SaveWriteUsers(t))
    \/ (\E t \in Threads : SaveReplace(t))
    \/ (\E t \in Threads : SaveFails(t))

SpecIo == InitIo /\ [][NextIo]_vars

\* the process has just started
Started == ops = 0 /\ Quiet

\* C21. With one operation at a time: a save that fails with an I/O error
\* returns to Storage.set's caller and leaves data.json as it was; data.json
\* changes only into the whole document in memory; and a process that could
\* not load data.json starts from the empty default document.
C21_FailedSaveKeepsFile ==
    [][/\ \A t \in Threads :
            (sv'[t].err /\ ~sv[t].err) =>
                (sv'[t].at = "saved" /\ disk' = disk /\ dumped' = dumped)
       /\ (disk' # disk \/ dumped' # dumped) =>
            (dumped' = AllParts /\ disk' = Document(keys, users))
       /\ (Started /\ dumped # AllParts) =>
            (keys = EmptyKeys /\ users = EmptyUsers)]_vars

\* a create_key command whose save failed has answered all the same, and
\* data.json is without the key
C21_AnsweredAfterFailure ==
    /\ bot.pc = "done"
    /\ bot.res = "Key Created Successfully"
    /\ sv["bot"].err
    /\ dumped = AllParts
    /\ bot.lk.key_id \in DOMAIN keys
    /\ bot.lk.key_id \notin DOMAIN disk.keys

\* C22. Every command, button press and request is answered with a definite
\* success or a failure that carries its reason, also when a permission
\* helper or the handler raises: no handler ends without a response to its
\* requester.
C22_EveryOperationAnswered ==
    /\ bot.pc = "done" => bot.res # Unanswered
    /\ web.pc = "done" => web.res # NoResponse

\* ------------------------------------------- parse_duration on its inputs
\* SpecParse: a create_key command suspended in has_key_role with a duration
\* argument of the kinds below, resumed at some instant.

\* a component left out of the string
Absent == -1

DigitChar(n) ==
    CASE n = 0 -> "0" [] n = 1 -> "1" [] n = 2 -> "2" [] n = 3 -> "3"
      [] n = 4 -> "4" [] n = 5 -> "5" [] n = 6 -> "6" [] n = 7 -> "7"
      [] n = 8 -> "8" [] n = 9 -> "9"

\* the decimal digits of n
RECURSIVE DecStr(_)
DecStr(n) ==
    IF n < 10 THEN <<DigitChar(n)>>
    ELSE DecStr(n \div 10) \o <<DigitChar(n % 10)>>

\* one component of the pattern, (\d+)u, or nothing
Part(n, u) == IF n = Absent THEN <<>> ELSE DecStr(n) \o <<u>>

\* the string of the components in the pattern's order
Build(c) ==
    Part(c.years, "y") \o Part(c.months, "m") \o Part(c.days, "d")
        \o Part(c.hours, "h")

\* the value of a component, "0" by default
Val(n) == IF n = Absent THEN 0 ELSE n

Combos ==
    [years : {Absent, 0, 1, 11}, months : {Absent, 0, 2},
     days : {Absent, 0, 1, 30}, hours : {Absent, 0, 23, 24, 49}]

Literals == {Permanent, Never, Zero}

\* strings that are neither a literal nor components in order
Malformed ==
    {<<"a", "b", "c">>, <<"1", "x">>, <<"1", "d", "1", "y">>, <<"1">>,
     <<"y">>, <<"1", "y", "1", "y">>, <<"1", " ", "d">>, <<"d", "1">>,
     <<"1", "h", "1", "d">>, <<"-", "1", "d">>, <<"1", ".", "5", "d">>,
     <<"0", "0">>}

\* strings that differ from a component string by blanks around them or by
\* upper case (lines 356 and 359)
Padded(s) == <<" ">> \o s \o <<" ">>
Variants ==
    {Padded(<<"1", "d">>), <<"1", "D">>, <<"2", "M", "2", "4", "H">>,
     Padded(<<"a", "b", "c">>), <<"1", "X">>,
     <<"P", "e", "r", "m", "a", "n", "e", "n", "t">>}

ParseInputs ==
    {Build(c) : c \in Combos} \cup Literals \cup Malformed \cup Variants

InitParse ==
    /\ disk \in {Document(EmptyKeys, EmptyUsers), StartDocument}
    /\ keys = disk.keys
    /\ users = disk.users
    /\ now = 0
    /\ bot = BotIdle
    /\ susp \in {Inv("create_key", TRUE, "AV", s, "lic", u, "H1", NoKey, "") :
                    s \in ParseInputs, u \in Users}
    /\ web = WebIdle
    /\ ops = 0
    /\ tmp = NoFile
    /\ dumped = AllParts
    /\ sv = NoSaves

NextParse ==
    \/ (susp # NoInv /\ Tick /\ UNCHANGED files)
    \/ (Wake /\ CreateKeyCmd(susp) /\ UNCHANGED files)
    \/ (CreateKeyUsers /\ UNCHANGED files)
    \/ (BotReturn /\ UNCHANGED files)

SpecParse == InitParse /\ [][NextParse]_vars

\* the create_key command has run parse_duration on its duration argument
Parsed == bot.pc \in {"create_users", "done"} /\ bot.inv.cmd = "create_key"

\* C23. For every string built from optional components in the order y, m,
\* d, h with non-negative values, parse_duration returns years*365 +
\* months*30 + days + floor(hours/24); for "permanent", "never" and "0" it
\* returns 0.
C23_ParseDurationTotal ==
    Parsed =>
        /\ \A c \in Combos :
              bot.inv.duration = Build(c) =>
                 parse_duration(bot.inv.duration) =
                    Val(c.years) * 365 + Val(c.months) * 30 + Val(c.days)
                        + (Val(c.hours) \div 24)
        /\ bot.inv.duration \in Literals =>
              parse_duration(bot.inv.duration) = 0

\* the command has parsed a string with all four components, the hours more
\* than two days
C23_AllFourComponents ==
    /\ Parsed
    /\ bot.inv.duration = Build([years |-> 1, months |-> 2, days |-> 30,
                                 hours |-> 49])

\* the string as parse_duration looks at it (lines 356 and 359)
Normalised(s) == Lower(Strip(s))

\* the component strings and the literals
WellFormed == {Build(c) : c \in Combos} \cup Literals

Created ==
    /\ bot.pc = "done"
    /\ bot.res \in {"Key Created Successfully", "Key generated"}

C26_StatusNeverReverts ==
    [][\A id \in DOMAIN keys \cap DOMAIN keys' :
          keys[id].status = "activated" => keys'[id].status = "activated"]_vars

\* an activated key has expired and has then been looked up by /check
C26_ExpiredActivatedChecked ==
    /\ web.pc = "done"
    /\ web.op = "check"
    /\ web.key \in DOMAIN keys
    /\ keys[web.key].status = "activated"
    /\ is_expired(from_dict(keys[web.key]), now)

\* C27. Once delete_key has taken a key out of `keys`, the key stays out
\* until a create_key produces it again, also with a POST /activate for that
\* key on the web thread in between: a key_id comes into `keys` only by the
\* step of KeyManager.create_key that stores it.
C27_DeletedStaysDeleted ==
    [][\A k \in DOMAIN keys' \ DOMAIN keys :
          /\ bot.pc = "idle"
          /\ bot'.pc = "create_users"
          /\ bot'.lk.key_id = k]_vars

\* the commands of the claim
GuardedCommands ==
    {"create_key", "delete_key", "delete_key_all", "delete_all_key",
     "activate_key"}

\* C28. A create_key, delete_key, delete_all_key or activate_key command of
\* a user who fails the command's permission check leaves `keys` and `users`
\* unchanged.
C28_RefusedChangesNothing ==
    [][(/\ bot.pc = "idle"
        /\ bot'.pc # "idle"
        /\ bot'.inv.cmd \in GuardedCommands
        /\ ~bot'.inv.allowed)
       => (keys' = keys /\ users' = users /\ bot'.pc = "done")]_vars

\* a delete_key command for a key that is there has been refused, and the
\* key is still there
C28_DeleteRefused ==
    /\ bot.pc = "done"
    /\ bot.inv.cmd = "delete_key"
    /\ ~bot.inv.allowed
    /\ bot.res = "Permission Denied"
    /\ bot.inv.key \in DOMAIN keys

\* a Reset Key press or a manage_key reset of a user let in
IsReset(inv) ==
    /\ inv.allowed
    /\ \/ inv.cmd = "reset"
       \/ (inv.cmd = "manage_key" /\ inv.name = "reset")

\* the key is the user's and of the type
Selected(d, inv) == d.user_id = inv.user /\ d.key_type = inv.ktype

\* C29. A Reset Key press or a manage_key reset removes the invoking user's
\* keys of the selected type from `keys` and from the user's summary, and
\* leaves every key of another user or type, every other profile and the
\* user's hwids as they were.
C29_ResetRemovesOwnKeysOnly ==
    [][(IsReset(bot'.inv) /\ bot' # bot) =>
         /\ \A id \in DOMAIN keys :
               ~Selected(keys[id], bot'.inv) =>
                  (id \in DOMAIN keys' /\ keys'[id] = keys[id])
         /\ \A u \in DOMAIN users :
               /\ u \in DOMAIN users'
               /\ u # Str(bot'.inv.user) => users'[u] = users[u]
               /\ users'[u].hwids = users[u].hwids
         /\ bot'.pc = "done" =>
               /\ \A id \in DOMAIN keys' : ~Selected(keys'[id], bot'.inv)
               /\ LET u == Str(bot'.inv.user) IN
                  u \in DOMAIN users' =>
                     \A id \in DOMAIN users'[u].keys :
                        users'[u].keys[id].key_type # bot'.inv.ktype]_vars

\* a duration of one hour or more: some component is positive
Positive(c) == c.years > 0 \/ c.months > 0 \/ c.days > 0 \/ c.hours > 0

\* its length in hours
Hours(c) ==
    (Val(c.years) * 365 + Val(c.months) * 30 + Val(c.days)) * 24
        + Val(c.hours)

\* C30. Every key the create_key command creates from an accepted duration
\* string other than permanent/never/0 (one hour up to ten years, as "1h",
\* "23h", "1d") has a finite expiry no later than 3650 days after its
\* creation, never the year-9999 sentinel; a duration above 3650 days is
\* refused and no key created.
C30_FiniteExpiry ==
    \A c \in Combos :
       (/\ bot.pc = "done"
        /\ bot.inv.cmd = "create_key"
        /\ bot.inv.duration = Build(c)
        /\ Positive(c))
       => IF Hours(c) > MaxDurationDays * 24
          THEN bot.res = "Invalid Duration: range" /\ bot.lk = NoLicense
          ELSE bot.res = "Key Created Successfully" =>
                  /\ bot.lk.expires_at # SentinelDay
                  /\ bot.lk.expires_at <= bot.lk.created_at + MaxDurationDays

====
